---- MODULE Spec2Model ----
(***************************************************************************)
(* Model of src/dataGenerator.py: the generate-write-load pipeline of      *)
(* main(), the four row producers, write_csv and load_csv.                 *)
(*                                                                         *)
(* Abstractions.                                                           *)
(*  - The random source is a nondeterministic choice at every draw; `rnd`  *)
(*    keeps the values drawn for the tuple last yielded.                   *)
(*  - A tuple keeps its key, its foreign references and its date; the    *)
(*    categorical, quantity and monetary columns, which no control flow    *)
(*    reads, are left out.                                                 *)
(*  - A csv file is the sequence of its lines; a line keeps the key        *)
(*    columns of its tuple (KeyCols).  The sampled columns are observed    *)
(*    in `row` as each tuple is yielded.                                   *)
(*  - Time is in seconds; the wall clock is read once per run (`now`).     *)
(*  - The MySQL server is a collaborator: a statement succeeds or fails    *)
(*    nondeterministically, except that LOAD DATA LOCAL cannot succeed     *)
(*    while the server's local_infile is off and SET GLOBAL cannot         *)
(*    succeed without the privilege.                                       *)
(***************************************************************************)
EXTENDS Integers, Sequences, FiniteSets, TLC

VARIABLES
    pc,          \* position of main()
    ent,         \* index in Stages of the entity being processed (0: none yet)
    n,           \* args: [products, customers, orders]
    now,         \* datetime.utcnow() of this run, in seconds
    chunk,       \* write_csv's chunk parameter
    localInfile, \* server variable local_infile
    priv,        \* the session may SET GLOBAL
    fkChecks,    \* session variable FOREIGN_KEY_CHECKS
    schema,      \* number of times the schema statements were run
    file,        \* table name -> lines of its csv file
    fstate,      \* table name -> "none" | "open" | "closed"
    load,        \* table name -> "none" | "running" | "returned" | "raised"
    imports,     \* LOAD DATA statements executed: [table, fk, ok, rows]
    gen,         \* the generator object being consumed
    row,         \* the tuple last yielded
    rnd,         \* the random values drawn for it
    written,     \* write_csv's local counter
    ret,         \* table name -> value returned by write_csv (-1: none)
    log,         \* lines printed: [msg, n, t]
    err          \* the uncaught exception: [type, at]

vars == <<pc, ent, n, now, chunk, localInfile, priv, fkChecks, schema, file,
          fstate, load, imports, gen, row, rnd, written, ret, log, err>>

----------------------------------------------------------------------------
(* Bounds *)
MaxProducts == 2
MaxCustomers == 2
MaxOrders == 2
MaxChunk == 2

(* Program constants *)
DefaultChunk == 100000

DaySeconds == 24 * 60 * 60
Epoch == 20000 * DaySeconds
Nows == {Epoch, Epoch + DaySeconds}

StagesSwapped == <<"customers", "products", "orders", "order_items">>
Stages == <<"products", "customers", "orders", "order_items">>
Tables == {"customers", "products", "orders", "order_items"}

Header(t) ==
    CASE t = "products"    -> <<"product_id">>
      [] t = "customers"   -> <<"customer_id">>
      [] t = "orders"      -> <<"order_id">>
      [] t = "order_items" -> <<"order_item_id", "order_id">>

KeyCols(t, r) == IF t = "order_items" THEN <<r[1], r[2]>> ELSE <<r[1]>>

randint(a, b) == a..b

(* random.random() in thousandths: one value at each edge of every bucket *)
RandomDraws == {0, 399, 400, 699, 700, 879, 880, 949, 950, 984, 985, 999}

daterange(t, start_days_ago, end_days_ago) ==
    <<t - start_days_ago * DaySeconds, t - end_days_ago * DaySeconds>>

rand_datetime(start, seconds) == start + seconds

(* the seconds rand_datetime may draw: both ends of the range and one inside *)
SecondsDraws(start, end) == {0, DaySeconds, end - start}

(* Faker.date_between(start_date="-<y>y", end_date="today"): a day number *)
date_between(t, daysBack) == (t \div DaySeconds) - daysBack
DaysBackDraws(years) == {0, years * 365}

(* the tuples, as far as the model keeps their columns *)
product_row(pid, t, d) == <<pid, date_between(t, d)>>
customer_row(cid, t, d) == <<cid, date_between(t, d)>>
order_row(oid, cust, start, s) == <<oid, cust, rand_datetime(start, s)>>
item_row(item_id, oid, pid) == <<item_id, oid, pid>>

items_per_order_off(r) ==
    IF r < 400 THEN 1
    ELSE IF r < 700 THEN 2
    ELSE IF r < 880 THEN 3
    ELSE IF r < 950 THEN 4
    ELSE IF r < 985 THEN 5
    ELSE 7
items_per_order(r) ==
    IF r < 400 THEN 1
    ELSE IF r < 700 THEN 2
    ELSE IF r < 880 THEN 3
    ELSE IF r < 950 THEN 4
    ELSE IF r < 985 THEN 5
    ELSE 6

CustomerDrawsFromZero(n_customers) == randint(0, n_customers)
CustomerDraws(n_customers) == randint(1, n_customers)

ProductDraws(n_products) == randint(1, n_products)

(* the key a generator resumes with: `pid += 1` after a yield *)
ResumeKeyStuck(g) == g.key
ResumeKey(g) == IF g.susp THEN g.key + 1 ELSE g.key

(* gen_<entity>(...)(): the generator object before its first next() *)
NewGen(t) ==
    [t |-> t, key |-> 1, i |-> 0, susp |-> FALSE, oid |-> 0, k |-> 0, j |-> 0,
     start |-> IF t = "orders" THEN daterange(now, 730, 0)[1] ELSE 0,
     end   |-> IF t = "orders" THEN daterange(now, 730, 0)[2] ELSE 0]

NoGen == [t |-> "none", key |-> 0, i |-> 0, susp |-> FALSE, oid |-> 0, k |-> 0,
          j |-> 0, start |-> 0, end |-> 0]
NoRow == <<>>
NoRnd == [days |-> 0, seconds |-> 0]
NoErr == [type |-> "none", at |-> "none"]

(* main() catches nothing: a failing step ends the run *)
OutcomeContinue(ok, next) == next
Outcome(ok, next) == IF ok THEN next ELSE "failed"

Raised(ok, type) == IF ok THEN NoErr ELSE [type |-> type, at |-> pc]

(* ensure_local_infile_enabled's try/except around SET GLOBAL *)
AfterSetGlobalRaise(ok) == IF ok THEN "fk_off" ELSE "failed"
AfterSetGlobal(ok) == "fk_off"

(* write_csv's progress test *)
ProgressDueOff(w, c) == (w + 1) % c = 0
ProgressDue(w, c) == w % c = 0

Cur == Stages[ent]

----------------------------------------------------------------------------
Init ==
    /\ pc = "connect"
    /\ ent = 0
    /\ n \in [products : 0..MaxProducts, customers : 0..MaxCustomers,
              orders : 0..MaxOrders]
    /\ now \in Nows
    /\ chunk = DefaultChunk
    /\ localInfile \in BOOLEAN
       \* the privilege is read only when local_infile is found off
    /\ priv \in (IF localInfile THEN {FALSE} ELSE BOOLEAN)
    /\ fkChecks = 1
    /\ schema = 0
    /\ file = [t \in Tables |-> <<>>]
    /\ fstate = [t \in Tables |-> "none"]
    /\ load = [t \in Tables |-> "none"]
    /\ imports = <<>>
    /\ gen = NoGen
    /\ row = NoRow
    /\ rnd = NoRnd
    /\ written = 0
    /\ ret = [t \in Tables |-> -1]
    /\ log = <<>>
    /\ err = NoErr

(* a step that changes nothing but the position and may fail *)
ControlStep(ok, next, type) ==
    /\ pc' = Outcome(ok, next)
    /\ err' = Raised(ok, type)

connect ==
    /\ pc = "connect"
    /\ \E ok \in BOOLEAN : ControlStep(ok, "ensure_db", "mysql.Error")
    /\ UNCHANGED <<ent, n, now, chunk, localInfile, priv, fkChecks, schema,
                   file, fstate, load, imports, gen, row, rnd, written, ret, log>>

ensure_db ==
    /\ pc = "ensure_db"
    /\ \E ok \in BOOLEAN : ControlStep(ok, "create_tables", "mysql.Error")
    /\ UNCHANGED <<ent, n, now, chunk, localInfile, priv, fkChecks, schema,
                   file, fstate, load, imports, gen, row, rnd, written, ret, log>>

create_tables ==
    /\ pc = "create_tables"
    /\ \E ok \in BOOLEAN :
        /\ ControlStep(ok, "makedirs", "mysql.Error")
        /\ schema' = IF ok THEN schema + 1 ELSE schema
    /\ UNCHANGED <<ent, n, now, chunk, localInfile, priv, fkChecks,
                   file, fstate, load, imports, gen, row, rnd, written, ret, log>>

(* fake.seed_instance(42); random.seed(42); os.makedirs(outdir) *)
makedirs ==
    /\ pc = "makedirs"
    /\ \E ok \in BOOLEAN :
        /\ ControlStep(ok, "open", "OSError")
        /\ ent' = IF ok THEN 1 ELSE ent
    /\ UNCHANGED <<n, now, chunk, localInfile, priv, fkChecks, schema,
                   file, fstate, load, imports, gen, row, rnd, written, ret, log>>

(* gen_<entity>(...)() is evaluated, then write_csv makes the directory,   *)
(* opens the file for writing and writes the header                        *)
write_csv_open ==
    /\ pc = "open"
    /\ gen' = NewGen(Cur)
    /\ \E ok \in BOOLEAN :
        /\ ControlStep(ok, "next", "OSError")
        /\ IF ok
           THEN /\ file' = [file EXCEPT ![Cur] = <<Header(Cur)>>]
                /\ fstate' = [fstate EXCEPT ![Cur] = "open"]
                /\ written' = 0
           ELSE UNCHANGED <<file, fstate, written>>
    /\ UNCHANGED <<ent, n, now, chunk, localInfile, priv, fkChecks, schema,
                   load, imports, row, rnd, ret, log>>

(* StopIteration: the for loop of write_csv ends *)
Exhausted ==
    /\ pc' = "close"
    /\ UNCHANGED <<gen, row, rnd, err>>

Yield(g, r, d) ==
    /\ gen' = g
    /\ row' = r
    /\ rnd' = d
    /\ pc' = "writerow"
    /\ err' = NoErr

next_products ==
    /\ pc = "next" /\ gen.t = "products"
    /\ LET pid == ResumeKey(gen) IN
       IF gen.i < n.products
       THEN \E d \in DaysBackDraws(5) :
              Yield([gen EXCEPT !.key = pid, !.i = gen.i + 1, !.susp = TRUE],
                    product_row(pid, now, d),
                    [days |-> d, seconds |-> 0])
       ELSE Exhausted
    /\ UNCHANGED <<ent, n, now, chunk, localInfile, priv, fkChecks, schema,
                   file, fstate, load, imports, written, ret, log>>

next_customers ==
    /\ pc = "next" /\ gen.t = "customers"
    /\ LET cid == ResumeKey(gen) IN
       IF gen.i < n.customers
       THEN \E d \in DaysBackDraws(3) :
              Yield([gen EXCEPT !.key = cid, !.i = gen.i + 1, !.susp = TRUE],
                    customer_row(cid, now, d),
                    [days |-> d, seconds |-> 0])
       ELSE Exhausted
    /\ UNCHANGED <<ent, n, now, chunk, localInfile, priv, fkChecks, schema,
                   file, fstate, load, imports, written, ret, log>>

(* random.randint(1, n_customers) raises ValueError on an empty range *)
next_orders ==
    /\ pc = "next" /\ gen.t = "orders"
    /\ LET oid == ResumeKey(gen) IN
       IF gen.i < n.orders
       THEN IF CustomerDraws(n.customers) = {}
            THEN /\ pc' = Outcome(FALSE, "writerow")
                 /\ err' = Raised(FALSE, "ValueError")
                 /\ UNCHANGED <<gen, row, rnd>>
            ELSE \E cust \in CustomerDraws(n.customers),
                    s \in SecondsDraws(gen.start, gen.end) :
                   Yield([gen EXCEPT !.key = oid, !.i = gen.i + 1, !.susp = TRUE],
                         order_row(oid, cust, gen.start, s),
                         [days |-> 0, seconds |-> s])
       ELSE Exhausted
    /\ UNCHANGED <<ent, n, now, chunk, localInfile, priv, fkChecks, schema,
                   file, fstate, load, imports, written, ret, log>>

(* gen_order_items: the outer loop takes the next order id and draws k *)
next_items_order ==
    /\ pc = "next" /\ gen.t = "order_items"
    /\ gen.j >= gen.k
    /\ IF gen.oid < n.orders
       THEN /\ \E r \in RandomDraws :
                 gen' = [gen EXCEPT !.key = ResumeKey(gen), !.susp = FALSE,
                                    !.oid = gen.oid + 1,
                                    !.k = items_per_order(r), !.j = 0]
            /\ UNCHANGED <<pc, row, rnd, err>>
       ELSE Exhausted
    /\ UNCHANGED <<ent, n, now, chunk, localInfile, priv, fkChecks, schema,
                   file, fstate, load, imports, written, ret, log>>

(* gen_order_items: the inner loop yields one item of the current order *)
next_items_item ==
    /\ pc = "next" /\ gen.t = "order_items"
    /\ gen.j < gen.k
    /\ LET item_id == ResumeKey(gen) IN
       IF ProductDraws(n.products) = {}
       THEN /\ pc' = Outcome(FALSE, "writerow")
            /\ err' = Raised(FALSE, "ValueError")
            /\ UNCHANGED <<gen, row, rnd>>
       ELSE \E pid \in ProductDraws(n.products) :
              Yield([gen EXCEPT !.key = item_id, !.j = gen.j + 1, !.susp = TRUE],
                    item_row(item_id, gen.oid, pid),
                    NoRnd)
    /\ UNCHANGED <<ent, n, now, chunk, localInfile, priv, fkChecks, schema,
                   file, fstate, load, imports, written, ret, log>>

(* w.writerow(row); written += 1; the progress line *)
writerow ==
    /\ pc = "writerow"
    /\ \E ok \in BOOLEAN :
        /\ ControlStep(ok, "next", "OSError")
        /\ IF ok
           THEN /\ file' = [file EXCEPT ![Cur] = Append(@, KeyCols(Cur, row))]
                /\ written' = written + 1
                /\ log' = IF ProgressDue(written + 1, chunk)
                          THEN Append(log, [msg |-> "wrote", n |-> written + 1,
                                            t |-> Cur])
                          ELSE log
           ELSE UNCHANGED <<file, written, log>>
    /\ UNCHANGED <<ent, n, now, chunk, localInfile, priv, fkChecks, schema,
                   fstate, load, imports, gen, row, rnd, ret>>

(* the file is closed, the final line printed, written returned *)
write_csv_close ==
    /\ pc = "close"
    /\ fstate' = [fstate EXCEPT ![Cur] = "closed"]
    /\ log' = Append(log, [msg |-> "done", n |-> written, t |-> Cur])
    /\ ret' = [ret EXCEPT ![Cur] = written]
    /\ pc' = "probe"
    /\ UNCHANGED <<ent, n, now, chunk, localInfile, priv, fkChecks, schema,
                   file, load, imports, gen, row, rnd, written, err>>

(* load_csv begins: ensure_local_infile_enabled reads the server variable *)
probe ==
    /\ pc = "probe"
    /\ \E ok \in BOOLEAN :
        /\ ControlStep(ok, IF localInfile THEN "fk_off" ELSE "set_global",
                       "mysql.Error")
        /\ load' = [load EXCEPT ![Cur] = IF ok THEN "running" ELSE "raised"]
    /\ UNCHANGED <<ent, n, now, chunk, localInfile, priv, fkChecks, schema,
                   file, fstate, imports, gen, row, rnd, written, ret, log>>

(* SET GLOBAL local_infile = 1 inside try/except Exception *)
set_global ==
    /\ pc = "set_global"
    /\ \E ok \in (IF priv THEN BOOLEAN ELSE {FALSE}) :
        /\ pc' = AfterSetGlobal(ok)
        /\ err' = IF pc' = "failed" THEN Raised(FALSE, "mysql.Error") ELSE NoErr
        /\ load' = [load EXCEPT ![Cur] = IF pc' = "failed" THEN "raised" ELSE @]
        /\ localInfile' = (localInfile \/ ok)
        /\ log' = Append(log, [msg |-> IF ok THEN "enabled" ELSE "warning",
                               n |-> 0, t |-> Cur])
    /\ UNCHANGED <<ent, n, now, chunk, priv, fkChecks, schema,
                   file, fstate, imports, gen, row, rnd, written, ret>>

fk_off ==
    /\ pc = "fk_off"
    /\ \E ok \in BOOLEAN :
        /\ ControlStep(ok, "import", "mysql.Error")
        /\ fkChecks' = IF ok THEN 0 ELSE fkChecks
        /\ load' = [load EXCEPT ![Cur] = IF ok THEN @ ELSE "raised"]
    /\ UNCHANGED <<ent, n, now, chunk, localInfile, priv, schema,
                   file, fstate, imports, gen, row, rnd, written, ret, log>>

(* LOAD DATA LOCAL INFILE ... IGNORE 1 LINES *)
import ==
    /\ pc = "import"
    /\ \E ok \in (IF localInfile THEN BOOLEAN ELSE {FALSE}) :
        /\ ControlStep(ok, "fk_on", "mysql.Error")
        /\ imports' = Append(imports, [table |-> Cur, fk |-> fkChecks, ok |-> ok,
                                       rows |-> IF ok THEN Len(file[Cur]) - 1
                                                ELSE 0])
        /\ load' = [load EXCEPT ![Cur] = IF ok THEN @ ELSE "raised"]
    /\ UNCHANGED <<ent, n, now, chunk, localInfile, priv, fkChecks, schema,
                   file, fstate, gen, row, rnd, written, ret, log>>

(* SET FOREIGN_KEY_CHECKS=1; load_csv returns; main goes to the next entity *)
fk_on ==
    /\ pc = "fk_on"
    /\ \E ok \in BOOLEAN :
        /\ ControlStep(ok, IF ent < Len(Stages) THEN "open" ELSE "summary",
                       "mysql.Error")
        /\ fkChecks' = IF ok THEN 1 ELSE fkChecks
        /\ load' = [load EXCEPT ![Cur] = IF ok THEN "returned" ELSE "raised"]
        /\ ent' = IF ok /\ ent < Len(Stages) THEN ent + 1 ELSE ent
    /\ UNCHANGED <<n, now, chunk, localInfile, priv, schema,
                   file, fstate, imports, gen, row, rnd, written, ret, log>>

(* "All done!", the summary line, conn.close() *)
summary ==
    /\ pc = "summary"
    /\ log' = Append(log, [msg |-> "summary", n |-> 0, t |-> "all"])
    /\ pc' = "done"
    /\ UNCHANGED <<ent, n, now, chunk, localInfile, priv, fkChecks, schema,
                   file, fstate, load, imports, gen, row, rnd, written, ret, err>>

Next ==
    \/ connect
    \/ ensure_db
    \/ create_tables
    \/ makedirs
    \/ write_csv_open
    \/ next_products
    \/ next_customers
    \/ next_orders
    \/ next_items_order
    \/ next_items_item
    \/ writerow
    \/ write_csv_close
    \/ probe
    \/ set_global
    \/ fk_off
    \/ import
    \/ fk_on
    \/ summary

Spec == Init /\ [][Next]_vars

----------------------------------------------------------------------------
(* write_csv on its own: any entity's producer, any chunk *)
InitWrite ==
    /\ pc = "open"
    /\ ent \in 1..Len(Stages)
    /\ n \in [products : 0..MaxProducts, customers : 0..MaxCustomers,
              orders : 0..MaxOrders]
    /\ now \in Nows
    /\ chunk \in 1..MaxChunk
    /\ localInfile = TRUE
    /\ priv = FALSE
    /\ fkChecks = 1
    /\ schema = 1
    /\ file = [t \in Tables |-> <<>>]
    /\ fstate = [t \in Tables |-> "none"]
    /\ load = [t \in Tables |-> "none"]
    /\ imports = <<>>
    /\ gen = NoGen
    /\ row = NoRow
    /\ rnd = NoRnd
    /\ written = 0
    /\ ret = [t \in Tables |-> -1]
    /\ log = <<>>
    /\ err = NoErr

NextWrite ==
    \/ write_csv_open
    \/ next_products
    \/ next_customers
    \/ next_orders
    \/ next_items_order
    \/ next_items_item
    \/ writerow
    \/ write_csv_close

SpecWrite == InitWrite /\ [][NextWrite]_vars

----------------------------------------------------------------------------
(* Helpers of the properties *)
Rows(t) == IF file[t] = <<>> THEN <<>> ELSE Tail(file[t])
Count(t) ==
    CASE t = "products"    -> n.products
      [] t = "customers"   -> n.customers
      [] t = "orders"      -> n.orders
      [] t = "order_items" -> n.orders
ItemsOf(oid) == {i \in 1..Len(Rows("order_items")) : Rows("order_items")[i][2] = oid}
Said(m, t) == \E i \in 1..Len(log) : log[i].msg = m /\ log[i].t = t
Attempted(t) == \E i \in 1..Len(imports) : imports[i].table = t
Failed == err.type # "none"
StageOf(t) == CHOOSE i \in 1..Len(Stages) : Stages[i] = t

----------------------------------------------------------------------------
(* C1: the keys a producer emits are 1, 2, ..., N in that order: every     *)
(* tuple yielded carries as key the number of tuples yielded so far, line  *)
(* i of a file carries key i, and a fully consumed producer of products,   *)
(* customers or orders has emitted exactly the requested number of rows.   *)
C1_KeysContiguous ==
    /\ pc = "writerow" => row[1] = written + 1
    /\ \A t \in Tables :
        /\ \A i \in 1..Len(Rows(t)) : Rows(t)[i][1] = i
        /\ (fstate[t] = "closed" /\ t # "order_items") => Len(Rows(t)) = Count(t)

C1_Witness ==
    /\ \A t \in Tables : fstate[t] = "closed"
    /\ n.products >= 2 /\ n.customers >= 2 /\ n.orders >= 2
    /\ Len(Rows("order_items")) > n.orders

(* C2: with n_products >= 1, the items file references every order id of   *)
(* 1..n_orders by at least 1 and at most 6 rows once the producer is       *)
(* consumed, never references another order id and never holds more than   *)
(* 6 rows of one order; the row count lies in n_orders..6*n_orders.        *)
C2_OrderCoverage ==
    LET items == Rows("order_items") IN
    /\ \A i \in 1..Len(items) :
          /\ items[i][2] \in 1..n.orders
          /\ Cardinality(ItemsOf(items[i][2])) <= 6
    /\ fstate["order_items"] = "closed" =>
          /\ \A oid \in 1..n.orders : Cardinality(ItemsOf(oid)) \in 1..6
          /\ Len(items) >= n.orders
          /\ Len(items) <= 6 * n.orders

C2_Witness ==
    /\ fstate["order_items"] = "closed"
    /\ n.orders >= 2 /\ n.products >= 1
    /\ Cardinality(ItemsOf(1)) = 6
    /\ Cardinality(ItemsOf(2)) = 1

(* C3: the schema is created once and before any file; the entities are    *)
(* processed in the order products, customers, orders, order_items; a      *)
(* load starts only on a completely written file; the next entity's file   *)
(* is started only after the previous entity's load has returned.          *)
C3_StageOrder ==
    /\ schema <= 1
    /\ \A t \in Tables :
        /\ fstate[t] # "none" => schema = 1
        /\ load[t] # "none" => fstate[t] = "closed"
        /\ Attempted(t) => fstate[t] = "closed" /\ ret[t] = Len(Rows(t))
    /\ fstate["customers"] # "none" => load["products"] = "returned"
    /\ fstate["orders"] # "none" => load["customers"] = "returned"
    /\ fstate["order_items"] # "none" => load["orders"] = "returned"
    /\ \A i \in 1..Len(imports) :
          imports[i].table = <<"products", "customers", "orders", "order_items">>[i]

C3_Witness ==
    /\ pc = "done"
    /\ Len(imports) = 4
    /\ n.products >= 1 /\ n.customers >= 1 /\ n.orders >= 1

(* C4: every import is executed with FOREIGN_KEY_CHECKS = 0, and once a    *)
(* load_csv call has ended the session has FOREIGN_KEY_CHECKS = 1 again.   *)
C4_FkChecksRestored ==
    /\ \A i \in 1..Len(imports) : imports[i].fk = 0
    /\ (\A t \in Tables : load[t] # "running") => fkChecks = 1

(* C5: a failure of any step ends the run there: nothing is caught, no     *)
(* later entity's file exists, no later import was issued, a failure       *)
(* before the load leaves the current entity unimported, and the summary   *)
(* is printed only by a run in which every stage succeeded.                *)
C5_FailureEndsRun ==
    /\ Failed <=> pc = "failed"
    /\ Failed =>
        /\ ~Said("summary", "all")
        /\ \A t \in Tables : StageOf(t) > ent =>
              fstate[t] = "none" /\ load[t] = "none" /\ ~Attempted(t)
        /\ err.at \in {"connect", "ensure_db", "create_tables", "makedirs"} =>
              \A t \in Tables : fstate[t] = "none" /\ ~Attempted(t)
        /\ err.at \in {"open", "next", "writerow"} =>
              fstate[Cur] # "closed" /\ load[Cur] = "none" /\ ~Attempted(Cur)
    /\ Said("summary", "all") =>
          \A t \in Tables : fstate[t] = "closed" /\ load[t] = "returned"

C5_Witness ==
    /\ pc = "failed"
    /\ err.at = "import"
    /\ Cur = "customers"
    /\ load["products"] = "returned"
    /\ fstate["orders"] = "none"

(* C6: when SET GLOBAL local_infile fails, the failure is swallowed and a  *)
(* warning printed; load_csv goes on to the import; the import, executed   *)
(* with local_infile still off, fails and its failure ends the run; no     *)
(* failed import is ever followed by anything, and no summary is printed.  *)
C6_WarnThenFatal ==
    /\ err.at # "set_global"
    /\ \A i \in 1..Len(imports) :
          ~imports[i].ok => i = Len(imports) /\ pc = "failed" /\ err.at = "import"
    /\ \A t \in Tables : Said("warning", t) =>
        /\ ~localInfile
        /\ t = Cur
        /\ pc \in {"fk_off", "import", "failed"}
        /\ pc = "failed" => err.at \in {"fk_off", "import"}
        /\ Attempted(t) => pc = "failed" /\ ~imports[Len(imports)].ok
        /\ ~Said("summary", "all")

C6_Witness ==
    /\ Said("warning", "products")
    /\ ~priv
    /\ Attempted("products")
    /\ pc = "failed"
    /\ err.at = "import"
    /\ load["products"] = "raised"

(* C7: a run with 0 customers does not crash: whatever the other counts,   *)
(* it fails only when the file system or the server fails.                 *)
C7_ZeroCustomersCompletes ==
    n.customers = 0 => err.type \in {"none", "OSError", "mysql.Error"}

(* C8: every foreign reference lies in the referenced key range and names  *)
(* a line of the referenced file: an order's customer_id is in             *)
(* 1..n_customers, an item's product_id in 1..n_products and its order_id  *)
(* the key of a written order.                                             *)
C8_ForeignRefsInRange ==
    /\ (pc = "writerow" /\ gen.t = "orders") =>
          /\ row[2] \in 1..n.customers
          /\ \E i \in 1..Len(Rows("customers")) : Rows("customers")[i][1] = row[2]
    /\ (pc = "writerow" /\ gen.t = "order_items") =>
          /\ row[3] \in 1..n.products
          /\ \E i \in 1..Len(Rows("products")) : Rows("products")[i][1] = row[3]
          /\ \E i \in 1..Len(Rows("orders")) : Rows("orders")[i][1] = row[2]

C8_Witness ==
    /\ pc = "writerow" /\ gen.t = "order_items"
    /\ n.products >= 2 /\ row[3] = n.products
    /\ n.customers >= 2
    /\ row[2] = 2

(* C9: the rows depend on the seed (the values drawn) and the counts only: *)
(* the tuple yielded is the tuple the same draws give at any other start   *)
(* time of the run.  Stated of the orders file, whose dates come from      *)
(* daterange.                                                              *)
RowAt(t) ==
    CASE gen.t = "products"    -> product_row(row[1], t, rnd.days)
      [] gen.t = "customers"   -> customer_row(row[1], t, rnd.days)
      [] gen.t = "orders"      -> order_row(row[1], row[2],
                                            daterange(t, 730, 0)[1], rnd.seconds)
      [] gen.t = "order_items" -> item_row(row[1], row[2], row[3])

C9_Deterministic ==
    (pc = "writerow" /\ gen.t = "orders") => \A t \in Nows : row = RowAt(t)

(* C10: write_csv writes the header, then one line per tuple in order,     *)
(* taking one tuple at a time; it returns the number of tuples, which is   *)
(* the number of non-header lines; it prints a progress line exactly at    *)
(* each positive multiple of chunk and one final line with the total.      *)
Yielded == IF gen.susp THEN gen.key ELSE gen.key - 1
Progress == SelectSeq(log, LAMBDA l : l.msg = "wrote")

C10_WriteCsv ==
    fstate[Cur] # "none" =>
        /\ file[Cur][1] = Header(Cur)
        /\ Len(Rows(Cur)) = written
        /\ Yielded - written = (IF pc = "writerow" \/ err.at = "writerow"
                                THEN 1 ELSE 0)
        /\ (written > 0 /\ pc # "writerow" /\ err.at # "writerow") =>
              Rows(Cur)[written] = KeyCols(Cur, row)
        /\ Len(Progress) = written \div chunk
        /\ \A i \in 1..Len(Progress) : Progress[i].n = i * chunk
        /\ Said("done", Cur) <=> fstate[Cur] = "closed"
        /\ fstate[Cur] = "closed" =>
              /\ ret[Cur] = written
              /\ ret[Cur] = Len(file[Cur]) - 1
              /\ log[Len(log)] = [msg |-> "done", n |-> written, t |-> Cur]
        /\ fstate[Cur] # "closed" => ret[Cur] = -1

C10_Witness ==
    /\ fstate[Cur] = "closed"
    /\ chunk = 2
    /\ written >= 2 * chunk
    /\ Len(Progress) = 2

====
